---------------------------- MODULE Spec2Model ----------------------------
(***************************************************************************)
(* A state-machine model of the ContForce plugin (openmmcontinuityforce):  *)
(* the bond table of ContForce (ContForce.h / ContForce.cpp), the          *)
(* per-context compiled kernel it is synchronised with, and the energy /   *)
(* force evaluation observed by TestReferenceContForce.cpp.                *)
(***************************************************************************)
EXTENDS Integers, Sequences, FiniteSets, TLC

VARIABLES
    bonds,      \* ContForce::bonds, the std::vector<BondInfo> (1-based here)
    rets,       \* history: the value returned by each addBond call, in order
    call,       \* the last API call: its name, arguments, outcome and result
    numParticles, \* System::getNumParticles() of the system the force is in
    impls,      \* per context: the compiled kernel's snapshots, if it exists
    compiledAt, \* history: per context, the table's topology when it was compiled
    positions   \* per context: the particle positions last set

vars == <<bonds, rets, call, numParticles, impls, compiledAt, positions>>
tableVars == <<bonds, rets>>
contextVars == <<numParticles, impls, compiledAt, positions>>

(***************************************************************************)
(* Bounds of the model and the sets the inputs are drawn from.             *)
(***************************************************************************)
MaxBonds == 2
MaxSyncBonds == 2
MaxKernelBonds == 2

Chains == { <<0, 1>>, <<0, 1, 2>> }
NParts == { 2, 3 }
\* (length, k) pairs: both parameters take two values, and they differ.
Params == { <<3, 1>>, <<4, 2>> }
Indices == -1 .. (MaxBonds + 1)
Contexts == { 1, 2 }

OK == "ok"
IndexOutOfRange == "Index out of range"
InvalidParticle == "Illegal particle index"
BondCountChanged == "The number of bonds has changed"

(***************************************************************************)
(* ContForce::BondInfo and the table operations.                           *)
(***************************************************************************)
BondInfo(idxs, npart, length, k) ==
    [idxs |-> idxs, npart |-> npart, length |-> length, k |-> k]

getNumBonds == Len(bonds)

\* ASSERT_VALID_INDEX(index, bonds): the 0-based index lies in the vector.
AssertValidIndex(index, vector) == index >= 0 /\ index < Len(vector)

\* A bug addBond could have: it returns the new size, not the new index.
addBond_ReturnsSize(idxs, npart, length, k) ==
    /\ bonds' = Append(bonds, BondInfo(idxs, npart, length, k))
    /\ rets' = Append(rets, Len(bonds'))
    /\ call' = [op |-> "addBond", args |-> <<idxs, npart, length, k>>,
                status |-> OK, result |-> <<Len(bonds')>>]
    /\ UNCHANGED contextVars

addBond(idxs, npart, length, k) ==
    /\ bonds' = Append(bonds, BondInfo(idxs, npart, length, k))
    /\ rets' = Append(rets, Len(bonds') - 1)
    /\ call' = [op |-> "addBond", args |-> <<idxs, npart, length, k>>,
                status |-> OK, result |-> <<Len(bonds') - 1>>]
    /\ UNCHANGED contextVars

getBondParameters(index) ==
    /\ IF AssertValidIndex(index, bonds)
       THEN call' = [op |-> "getBondParameters", args |-> <<index>>,
                     status |-> OK,
                     result |-> << bonds[index + 1].idxs, bonds[index + 1].npart,
                                   bonds[index + 1].length, bonds[index + 1].k >>]
       ELSE call' = [op |-> "getBondParameters", args |-> <<index>>,
                     status |-> IndexOutOfRange, result |-> <<>>]
    /\ UNCHANGED <<bonds, rets, contextVars>>

\* A bug setBondParameters could have: the stiffness is not stored.
setBondParameters_DropsK(index, idxs, npart, length, k) ==
    /\ IF AssertValidIndex(index, bonds)
       THEN /\ bonds' = [bonds EXCEPT ![index + 1].idxs = idxs,
                                      ![index + 1].npart = npart,
                                      ![index + 1].length = length]
            /\ call' = [op |-> "setBondParameters",
                        args |-> <<index, idxs, npart, length, k>>,
                        status |-> OK, result |-> <<>>]
       ELSE /\ bonds' = bonds
            /\ call' = [op |-> "setBondParameters",
                        args |-> <<index, idxs, npart, length, k>>,
                        status |-> IndexOutOfRange, result |-> <<>>]
    /\ UNCHANGED <<rets, contextVars>>

\* A bug setBondParameters could have: the fields are assigned before the
\* index is validated, with the index clamped into the vector.
setBondParameters_WritesFirst(index, idxs, npart, length, k) ==
    /\ IF AssertValidIndex(index, bonds)
       THEN /\ bonds' = [bonds EXCEPT ![index + 1] = BondInfo(idxs, npart, length, k)]
            /\ call' = [op |-> "setBondParameters",
                        args |-> <<index, idxs, npart, length, k>>,
                        status |-> OK, result |-> <<>>]
       ELSE /\ bonds' = IF Len(bonds) > 0
                        THEN [bonds EXCEPT ![Len(bonds)] = BondInfo(idxs, npart, length, k)]
                        ELSE bonds
            /\ call' = [op |-> "setBondParameters",
                        args |-> <<index, idxs, npart, length, k>>,
                        status |-> IndexOutOfRange, result |-> <<>>]
    /\ UNCHANGED <<rets, contextVars>>

setBondParameters(index, idxs, npart, length, k) ==
    /\ IF AssertValidIndex(index, bonds)
       THEN /\ bonds' = [bonds EXCEPT ![index + 1].idxs = idxs,
                                      ![index + 1].npart = npart,
                                      ![index + 1].length = length,
                                      ![index + 1].k = k]
            /\ call' = [op |-> "setBondParameters",
                        args |-> <<index, idxs, npart, length, k>>,
                        status |-> OK, result |-> <<>>]
       ELSE /\ bonds' = bonds
            /\ call' = [op |-> "setBondParameters",
                        args |-> <<index, idxs, npart, length, k>>,
                        status |-> IndexOutOfRange, result |-> <<>>]
    /\ UNCHANGED <<rets, contextVars>>

(***************************************************************************)
(* Compiling the force into a context, and synchronising its parameters.   *)
(* A context's kernel holds a topology snapshot (idxs, npart per bond) and *)
(* a parameter snapshot (length, k per bond).                              *)
(***************************************************************************)
NoCall == [op |-> "ContForce", args |-> <<>>, status |-> OK, result |-> <<>>]

NoImpl == [compiled |-> FALSE, topology |-> <<>>, parameters |-> <<>>]

Topology(table) ==
    [b \in 1 .. Len(table) |-> [idxs |-> table[b].idxs, npart |-> table[b].npart]]

Parameters(table) ==
    [b \in 1 .. Len(table) |-> [length |-> table[b].length, k |-> table[b].k]]

\* Some bond of the table names a particle the system does not have.
HasInvalidParticle(table, n) ==
    \E b \in 1 .. Len(table) : \E i \in 1 .. Len(table[b].idxs) :
        table[b].idxs[i] < 0 \/ table[b].idxs[i] >= n

\* A bug createImpl could have: the impl is bound to a default-constructed
\* ContForce, not to this one.
createImpl_FreshForce == <<>>

\* new ContForceImpl(*this): the impl's owner is this force, whose bond table
\* the impl reads when it is initialised and when it is synchronised.
createImpl == bonds

\* ContForceImpl::initialize / kernel initialize: validate, then snapshot.
initialize(c, owner) ==
    IF HasInvalidParticle(owner, numParticles)
    THEN /\ call' = [op |-> "Context", args |-> <<c>>,
                     status |-> InvalidParticle, result |-> <<>>]
         /\ UNCHANGED <<impls, compiledAt>>
    ELSE /\ impls' = [impls EXCEPT ![c] =
                        [compiled |-> TRUE, topology |-> Topology(owner),
                         parameters |-> Parameters(owner)]]
         /\ compiledAt' = [compiledAt EXCEPT ![c] = Topology(bonds)]
         /\ call' = [op |-> "Context", args |-> <<c>>,
                     status |-> OK, result |-> <<>>]

\* Context context(system, integrator, platform): the host engine asks the
\* force for its impl and initialises it.
newContext(c) ==
    /\ ~impls[c].compiled
    /\ initialize(c, createImpl)
    /\ UNCHANGED <<tableVars, numParticles, positions>>

\* Kernel copyParametersToContext: the bond count is checked, then length
\* and k of every bond are copied; the topology snapshot is not touched.
copyParametersToContext(c, force) ==
    IF Len(force) # Len(impls[c].topology)
    THEN /\ call' = [op |-> "updateParametersInContext", args |-> <<c>>,
                     status |-> BondCountChanged, result |-> <<>>]
         /\ UNCHANGED impls
    ELSE /\ impls' = [impls EXCEPT ![c].parameters = Parameters(force)]
         /\ call' = [op |-> "updateParametersInContext", args |-> <<c>>,
                     status |-> OK, result |-> <<>>]

\* A bug updateParametersInContext could have: nothing is forwarded.
updateParametersInContext_NoOp(c) ==
    /\ impls[c].compiled
    /\ call' = [op |-> "updateParametersInContext", args |-> <<c>>,
                status |-> OK, result |-> <<>>]
    /\ UNCHANGED <<tableVars, contextVars>>

\* A bug updateParametersInContext could have: the context is reinitialised,
\* which takes the snapshots again from the current table.
updateParametersInContext_Reinitializes(c) ==
    /\ impls[c].compiled
    /\ impls' = [impls EXCEPT ![c] =
                    [compiled |-> TRUE, topology |-> Topology(bonds),
                     parameters |-> Parameters(bonds)]]
    /\ call' = [op |-> "updateParametersInContext", args |-> <<c>>,
                status |-> OK, result |-> <<>>]
    /\ UNCHANGED <<tableVars, numParticles, compiledAt, positions>>

\* A bug updateParametersInContext could have: every context holding the
\* force is synchronised, not only the one passed in.
updateParametersInContext_AllContexts(c) ==
    /\ impls[c].compiled
    /\ IF Len(bonds) # Len(impls[c].topology)
       THEN /\ call' = [op |-> "updateParametersInContext", args |-> <<c>>,
                        status |-> BondCountChanged, result |-> <<>>]
            /\ UNCHANGED impls
       ELSE /\ impls' = [d \in Contexts |->
                            IF impls[d].compiled /\ Len(impls[d].topology) = Len(bonds)
                            THEN [impls[d] EXCEPT !.parameters = Parameters(bonds)]
                            ELSE impls[d]]
            /\ call' = [op |-> "updateParametersInContext", args |-> <<c>>,
                        status |-> OK, result |-> <<>>]
    /\ UNCHANGED <<tableVars, numParticles, compiledAt, positions>>

\* getImplInContext(context) finds this force's impl in that context, and the
\* impl forwards to the kernel of that context.
updateParametersInContext(c) ==
    /\ impls[c].compiled
    /\ copyParametersToContext(c, bonds)
    /\ UNCHANGED <<tableVars, numParticles, compiledAt, positions>>

(***************************************************************************)
(* The kernel's evaluation.  Positions are integer points whose mutual     *)
(* distances are integers, so that the distance r = sqrt(d . d) is exact.  *)
(* A force component 2 k (r - L) d / r is held multiplied by ForceScale, a *)
(* common multiple of the distances that occur, so that it is an integer.  *)
(***************************************************************************)
DegenerateGeometry == "Zero distance between consecutive particles"
PositionsNotSet == "Particle positions have not been set"

Points == { <<-3, 0, 0>>, <<0, 0, 0>>, <<3, 0, 0>>, <<0, 4, 0>> }
ForceScale == 3 * 4 * 5
Axes == 1 .. 3
Zero3 == <<0, 0, 0>>

Delta(a, b) == [j \in Axes |-> b[j] - a[j]]
Dot(a, b) == a[1] * b[1] + a[2] * b[2] + a[3] * b[3]
Sqrt(n) == CHOOSE r \in 0 .. n : r * r <= n /\ n < (r + 1) * (r + 1)
Distance(a, b) == Sqrt(Dot(Delta(a, b), Delta(a, b)))

\* Position of particle p (0-based) in a configuration.
At(pos, p) == pos[p + 1]

\* A bug the kernel could have: the last pair of a chain is left out.
chainPairs_SkipsLast(npart) == 1 .. (npart - 2)

\* The pairs of a chain p[0 .. npart-1]: (p[i], p[i+1]) for i in [0, npart-2],
\* named here by the 1-based place of the pair's first particle.
chainPairs(npart) == 1 .. (npart - 1)

pairEnergy(a, b, length, k) ==
    k * (Distance(a, b) - length) * (Distance(a, b) - length)

\* A bug the kernel could have: the pair force is added to both particles
\* with the same sign.
pairForceOnSecond_SameSign(a, b, length, k) ==
    [j \in Axes |->
        2 * k * (Distance(a, b) - length) * Delta(a, b)[j]
          * (ForceScale \div Distance(a, b))]

\* Force (times ForceScale) on the first particle of a pair at a, b: of size
\* 2 k (r - L), along d / r with d = b - a.
pairForceOnFirst(a, b, length, k) ==
    [j \in Axes |->
        2 * k * (Distance(a, b) - length) * Delta(a, b)[j]
          * (ForceScale \div Distance(a, b))]

\* Force (times ForceScale) on the second particle: the opposite one.
pairForceOnSecond(a, b, length, k) ==
    [j \in Axes |->
        (0 - 2) * k * (Distance(a, b) - length) * Delta(a, b)[j]
          * (ForceScale \div Distance(a, b))]

\* The loop over one bond's pairs, from pair i on, adding to the energy.
RECURSIVE chainEnergy(_, _, _, _)
chainEnergy(bond, par, pos, i) ==
    IF i \notin chainPairs(bond.npart) THEN 0
    ELSE pairEnergy(At(pos, bond.idxs[i]), At(pos, bond.idxs[i + 1]),
                    par.length, par.k)
         + chainEnergy(bond, par, pos, i + 1)

\* The loop over the bonds, from bond b on.
RECURSIVE totalEnergy(_, _, _)
totalEnergy(impl, pos, b) ==
    IF b > Len(impl.topology) THEN 0
    ELSE chainEnergy(impl.topology[b], impl.parameters[b], pos, 1)
         + totalEnergy(impl, pos, b + 1)

\* The loop over one bond's pairs, adding each pair's two forces into the
\* force buffer.
RECURSIVE chainForces(_, _, _, _, _)
chainForces(forces, bond, par, pos, i) ==
    IF i \notin chainPairs(bond.npart) THEN forces
    ELSE LET p1 == bond.idxs[i]
             p2 == bond.idxs[i + 1]
             f1 == pairForceOnFirst(At(pos, p1), At(pos, p2), par.length, par.k)
             f2 == pairForceOnSecond(At(pos, p1), At(pos, p2), par.length, par.k)
             added1 == [forces EXCEPT ![p1 + 1] =
                          [j \in Axes |-> forces[p1 + 1][j] + f1[j]]]
             added2 == [added1 EXCEPT ![p2 + 1] =
                          [j \in Axes |-> added1[p2 + 1][j] + f2[j]]]
         IN  chainForces(added2, bond, par, pos, i + 1)

RECURSIVE totalForces(_, _, _, _)
totalForces(forces, impl, pos, b) ==
    IF b > Len(impl.topology) THEN forces
    ELSE totalForces(chainForces(forces, impl.topology[b], impl.parameters[b], pos, 1),
                     impl, pos, b + 1)

\* Some consecutive pair of some bond has zero separation.
HasDegeneratePair(impl, pos) ==
    \E b \in 1 .. Len(impl.topology) :
        \E i \in chainPairs(impl.topology[b].npart) :
            Distance(At(pos, impl.topology[b].idxs[i]),
                     At(pos, impl.topology[b].idxs[i + 1])) = 0

\* context.setPositions(positions)
setPositions(c, pos) ==
    /\ impls[c].compiled
    /\ positions' = [positions EXCEPT ![c] = pos]
    /\ call' = [op |-> "setPositions", args |-> <<c>>, status |-> OK,
                result |-> <<>>]
    /\ UNCHANGED <<tableVars, numParticles, impls, compiledAt>>

\* context.getState(State::Energy | State::Forces): the kernel's execute.
getState(c) ==
    /\ impls[c].compiled
    /\ call' =
         IF positions[c] = <<>>
         THEN [op |-> "getState", args |-> <<c>>, status |-> PositionsNotSet,
               result |-> <<>>]
         ELSE IF HasDegeneratePair(impls[c], positions[c])
         THEN [op |-> "getState", args |-> <<c>>, status |-> DegenerateGeometry,
               result |-> <<>>]
         ELSE [op |-> "getState", args |-> <<c>>, status |-> OK,
               result |-> << totalEnergy(impls[c], positions[c], 1),
                             totalForces([p \in 1 .. numParticles |-> Zero3],
                                         impls[c], positions[c], 1) >>]
    /\ UNCHANGED <<tableVars, contextVars>>

(***************************************************************************)
(* The bond table on its own: a fresh ContForce and its three operations.  *)
(***************************************************************************)

Init ==
    /\ bonds = <<>>
    /\ rets = <<>>
    /\ call = NoCall
    /\ numParticles = 2
    /\ impls = [c \in Contexts |-> NoImpl]
    /\ compiledAt = [c \in Contexts |-> <<>>]
    /\ positions = [c \in Contexts |-> <<>>]

AddBond ==
    /\ Len(bonds) < MaxBonds
    /\ \E idxs \in Chains, npart \in NParts, p \in Params :
           addBond(idxs, npart, p[1], p[2])

GetBondParameters ==
    \E index \in Indices : getBondParameters(index)

SetBondParameters ==
    \E index \in Indices, idxs \in Chains, npart \in NParts, p \in Params :
        setBondParameters(index, idxs, npart, p[1], p[2])

Next ==
    \/ AddBond
    \/ GetBondParameters
    \/ SetBondParameters

Spec == Init /\ [][Next]_vars

(***************************************************************************)
(* C1: the n-th addBond call on a fresh ContForce returns n-1, so the      *)
(* returned indices are 0, 1, 2, ... in call order, and getNumBonds()      *)
(* equals the number of addBond calls made so far.                         *)
(***************************************************************************)
C1_AddBondIndices ==
    /\ \A n \in 1 .. Len(rets) : rets[n] = n - 1
    /\ getNumBonds = Len(rets)
    /\ (call.op = "addBond" => call.result = <<Len(rets) - 1>>)

C1_Witness ==
    /\ Len(rets) = 2
    /\ call.op = "setBondParameters"
    /\ call.status = OK

(***************************************************************************)
(* C2: a successful setBondParameters(i, P, n, L, k), or an addBond(P, n,  *)
(* L, k) that returned i, directly followed by getBondParameters(i), makes *)
(* the get return exactly (P, n, L, k).                                    *)
(***************************************************************************)
C2_RoundTrip ==
    [][ /\ call'.op = "getBondParameters"
        /\ \/ /\ call.op = "setBondParameters"
              /\ call.status = OK
              /\ call'.args = <<call.args[1]>>
           \/ /\ call.op = "addBond"
              /\ call'.args = call.result
        => /\ call'.status = OK
           /\ call'.result =
                IF call.op = "addBond" THEN call.args
                ELSE <<call.args[2], call.args[3], call.args[4], call.args[5]>> ]_vars

C2_Witness ==
    /\ call.op = "getBondParameters"
    /\ call.status = OK
    /\ call.args = <<0>>
    /\ Len(bonds) = 2
    /\ call.result = << <<0, 1, 2>>, 3, 4, 2 >>
    /\ bonds[2].k = 1

(***************************************************************************)
(* C3: every stored bond has npart equal to the length of its idxs list.   *)
(***************************************************************************)
C3_CountMatchesParticles ==
    \A b \in 1 .. Len(bonds) : bonds[b].npart = Len(bonds[b].idxs)

(***************************************************************************)
(* C4: getBondParameters and setBondParameters with an index that is       *)
(* negative or >= getNumBonds() end with the index error, and the call     *)
(* leaves the bond table as it was.                                        *)
(***************************************************************************)
C4_BadIndexRejected ==
    [][ /\ call'.op \in {"getBondParameters", "setBondParameters"}
        /\ (call'.args[1] < 0 \/ call'.args[1] >= getNumBonds)
        => /\ call'.status = IndexOutOfRange
           /\ bonds' = bonds ]_vars

C4_Witness ==
    /\ call.op = "setBondParameters"
    /\ call.status = IndexOutOfRange
    /\ call.args[1] = 2
    /\ Len(bonds) = 2

(***************************************************************************)
(* The force with contexts: bonds whose count matches their chain are      *)
(* added and edited, contexts are constructed, and parameters are          *)
(* synchronised.  The system has two particles, so the chain <<0, 1, 2>>   *)
(* names a particle that does not exist.                                   *)
(***************************************************************************)
SyncAddBond ==
    /\ Len(bonds) < MaxSyncBonds
    /\ \E idxs \in Chains, p \in Params :
           addBond(idxs, Len(idxs), p[1], p[2])

SyncSetBondParameters ==
    \E index \in 0 .. (Len(bonds) - 1), idxs \in Chains, p \in Params :
        setBondParameters(index, idxs, Len(idxs), p[1], p[2])

NewContext ==
    \E c \in Contexts : newContext(c)

UpdateParametersInContext ==
    \E c \in Contexts : updateParametersInContext(c)

NextSync ==
    \/ SyncAddBond
    \/ SyncSetBondParameters
    \/ NewContext
    \/ UpdateParametersInContext

SpecSync == Init /\ [][NextSync]_vars

(***************************************************************************)
(* C5: after a successful updateParametersInContext(context), the          *)
(* parameter snapshot of that context's kernel holds, for every bond       *)
(* index, the table's current length and stiffness, and the context is     *)
(* the one that was compiled (its topology snapshot is the one taken       *)
(* then).                                                                  *)
(***************************************************************************)
C5_SnapshotFollowsTable ==
    (call.op = "updateParametersInContext" /\ call.status = OK) =>
        LET c == call.args[1] IN
        /\ impls[c].compiled
        /\ Len(impls[c].parameters) = Len(bonds)
        /\ \A b \in 1 .. Len(bonds) :
              /\ impls[c].parameters[b].length = bonds[b].length
              /\ impls[c].parameters[b].k = bonds[b].k
        /\ impls[c].topology = compiledAt[c]

\* Both contexts were compiled from the same two bonds; bond 0 was then
\* edited from (3, 1) to (4, 2) and context 1 alone was synchronised.
C5_Witness ==
    /\ call.op = "updateParametersInContext"
    /\ call.args = <<1>>
    /\ call.status = OK
    /\ Len(bonds) = 2
    /\ impls[2].compiled
    /\ Len(impls[2].parameters) = 2
    /\ impls[2].parameters[1] = [length |-> 3, k |-> 1]
    /\ impls[1].parameters[1] = [length |-> 4, k |-> 2]

(***************************************************************************)
(* C6: updateParametersInContext called when the table's bond count        *)
(* differs from the count captured at compile time ends with the           *)
(* bond-count error and changes neither snapshot of any kernel.            *)
(***************************************************************************)
C6_CountMismatchRejected ==
    [][ /\ call'.op = "updateParametersInContext"
        /\ Len(bonds) # Len(impls[call'.args[1]].topology)
        => /\ call'.status = BondCountChanged
           /\ impls' = impls
           /\ bonds' = bonds ]_vars

\* The table grew from one bond to two after the context was compiled.
C6_Witness ==
    /\ call.op = "updateParametersInContext"
    /\ call.status = BondCountChanged
    /\ Len(compiledAt[call.args[1]]) = 1
    /\ Len(bonds) = 2

(***************************************************************************)
(* C9: addBond and setBondParameters accept any particle indices; the      *)
(* construction of a context fails if and only if some bond of the table   *)
(* has a particle index outside [0, numParticles), and then no kernel      *)
(* exists for that context.                                                *)
(***************************************************************************)
C9_ValidationAtCompile ==
    /\ (call.op = "addBond" => call.status = OK)
    /\ (call.op = "setBondParameters" /\ AssertValidIndex(call.args[1], bonds)
            => call.status = OK)
    /\ (call.op = "Context" =>
            /\ (call.status = InvalidParticle
                    <=> HasInvalidParticle(bonds, numParticles))
            /\ (call.status = OK <=> ~HasInvalidParticle(bonds, numParticles))
            /\ (impls[call.args[1]].compiled <=> call.status = OK))

\* One valid and one invalid bond: the construction failed as a whole.
C9_Witness ==
    /\ call.op = "Context"
    /\ call.status = InvalidParticle
    /\ Len(bonds) = 2
    /\ bonds[1].idxs = <<0, 1>>
    /\ bonds[2].idxs = <<0, 1, 2>>
    /\ ~impls[call.args[1]].compiled

(***************************************************************************)
(* C10: a compiled kernel changes only through updateParametersInContext   *)
(* on its own context, and then only in length / stiffness: (a) the        *)
(* topology snapshot of every compiled context equals the topology of the  *)
(* table at that context's compile time; (b) a step changes a compiled     *)
(* context's parameter snapshot only if it is a successful                 *)
(* updateParametersInContext of that context.                              *)
(***************************************************************************)
C10_KernelFrame ==
    [][ \A c \in Contexts :
          /\ impls'[c].compiled => impls'[c].topology = compiledAt'[c]
          /\ impls[c].compiled =>
                /\ impls'[c].compiled
                /\ impls'[c].topology = impls[c].topology
                /\ (impls'[c].parameters # impls[c].parameters
                      => /\ call'.op = "updateParametersInContext"
                         /\ call'.args = <<c>>
                         /\ call'.status = OK) ]_vars

\* Both contexts are compiled, the table's topology has been edited since,
\* and one context was synchronised while the other kept its parameters.
C10_Witness ==
    /\ impls[1].compiled /\ impls[2].compiled
    /\ call.op = "updateParametersInContext"
    /\ call.args = <<1>>
    /\ call.status = OK
    /\ Len(bonds) = 1
    /\ impls[1].parameters # impls[2].parameters
    /\ Topology(bonds) # impls[1].topology

(***************************************************************************)
(* The kernel on its own: a system of three particles, a force whose bond  *)
(* list is drawn from the kernel's inputs and has been compiled into       *)
(* context 1; positions are set and the state is asked for.                *)
(***************************************************************************)
KernelChains == { <<0>>, <<0, 1>>, <<0, 2>>, <<1, 0, 2>> }

KernelBonds ==
    { BondInfo(idxs, Len(idxs), p[1], p[2]) : idxs \in KernelChains, p \in Params }

KernelTables ==
    UNION { [1 .. n -> KernelBonds] : n \in 0 .. MaxKernelBonds }

Configurations == [1 .. 3 -> Points]

InitKernel ==
    /\ bonds \in KernelTables
    /\ rets = [n \in 1 .. Len(bonds) |-> n - 1]
    /\ numParticles = 3
    /\ impls = [c \in Contexts |->
                  IF c = 1
                  THEN [compiled |-> TRUE, topology |-> Topology(bonds),
                        parameters |-> Parameters(bonds)]
                  ELSE NoImpl]
    /\ compiledAt = [c \in Contexts |-> IF c = 1 THEN Topology(bonds) ELSE <<>>]
    /\ positions = [c \in Contexts |-> <<>>]
    /\ call = [op |-> "Context", args |-> <<1>>, status |-> OK, result |-> <<>>]

SetPositions ==
    \E c \in Contexts, pos \in Configurations : setPositions(c, pos)

GetState ==
    \E c \in Contexts : getState(c)

NextKernel ==
    \/ SetPositions
    \/ GetState

SpecKernel == InitKernel /\ [][NextKernel]_vars

\* The sum of f over the set S of its arguments.
RECURSIVE SumOver(_, _)
SumOver(f, S) ==
    IF S = {} THEN 0
    ELSE LET x == CHOOSE y \in S : TRUE
         IN  f[x] + SumOver(f, S \ {x})

\* Every (bond, place) such that the particles at that place and the next
\* one of the bond's chain are a consecutive pair of a compiled bond.
ConsecutivePairs(impl) ==
    { bi \in (1 .. Len(impl.topology)) \X (1 .. 3) :
        bi[2] + 1 <= impl.topology[bi[1]].npart }

PairFirst(impl, bi) == impl.topology[bi[1]].idxs[bi[2]]
PairSecond(impl, bi) == impl.topology[bi[1]].idxs[bi[2] + 1]
PairDistance(impl, pos, bi) ==
    Distance(At(pos, PairFirst(impl, bi)), At(pos, PairSecond(impl, bi)))

(***************************************************************************)
(* C7: the energy the kernel returns is the sum, over all compiled bonds b *)
(* and all consecutive pairs of b's chain, of k_b (r - L_b)^2; pairs at    *)
(* spacing L_b add nothing, and a bond of one particle adds nothing.       *)
(***************************************************************************)
C7_EnergyIsPairSum ==
    (call.op = "getState" /\ call.status = OK) =>
        LET impl == impls[call.args[1]]
            pos == positions[call.args[1]]
            pairs == ConsecutivePairs(impl)
            term == [bi \in pairs |->
                       impl.parameters[bi[1]].k
                         * (PairDistance(impl, pos, bi) - impl.parameters[bi[1]].length)
                         * (PairDistance(impl, pos, bi) - impl.parameters[bi[1]].length)]
            stretched == { bi \in pairs :
                             PairDistance(impl, pos, bi)
                               # impl.parameters[bi[1]].length }
        IN  /\ call.result[1] = SumOver(term, pairs)
            /\ call.result[1] = SumOver(term, stretched)
            /\ ((\A b \in 1 .. Len(impl.topology) : impl.topology[b].npart = 1)
                   => call.result[1] = 0)

\* The chain 1 - 0 - 2 with particles 1 and 2 five apart (not a pair of the
\* chain), pair (1, 0) at its length 3 and pair (0, 2) stretched from 3 to
\* 4, beside a bond of one particle: the energy is 1 * (4 - 3)^2 = 1.
C7_Witness ==
    /\ call.op = "getState"
    /\ call.status = OK
    /\ impls[1].topology = << [idxs |-> <<1, 0, 2>>, npart |-> 3],
                              [idxs |-> <<0>>, npart |-> 1] >>
    /\ impls[1].parameters[1] = [length |-> 3, k |-> 1]
    /\ positions[1] = << <<0, 0, 0>>, <<3, 0, 0>>, <<0, 4, 0>> >>
    /\ call.result[1] = 1

(***************************************************************************)
(* C8: the force on every particle is the sum, over every consecutive pair *)
(* of every bond that holds the particle, of the pair force of size        *)
(* 2 k (r - L) along the pair's unit direction, with opposite signs on the *)
(* pair's two particles; so the forces sum to zero, and a particle bonded  *)
(* by two bonds of the same length and k to two partners placed            *)
(* symmetrically about it gets no force.  (Forces are times ForceScale.)   *)
(***************************************************************************)
C8_ForceIsPairSum ==
    (call.op = "getState" /\ call.status = OK) =>
        LET impl == impls[call.args[1]]
            pos == positions[call.args[1]]
            forces == call.result[2]
            pairs == ConsecutivePairs(impl)
            \* the force (times ForceScale) of pair bi on its first particle
            onFirst(bi, j) ==
                2 * impl.parameters[bi[1]].k
                  * (PairDistance(impl, pos, bi) - impl.parameters[bi[1]].length)
                  * (At(pos, PairSecond(impl, bi))[j] - At(pos, PairFirst(impl, bi))[j])
                  * (ForceScale \div PairDistance(impl, pos, bi))
            part(q, j) ==
                [bi \in pairs |->
                    (IF PairFirst(impl, bi) = q THEN onFirst(bi, j) ELSE 0)
                  - (IF PairSecond(impl, bi) = q THEN onFirst(bi, j) ELSE 0)]
        IN  /\ \A q \in 0 .. (numParticles - 1) : \A j \in Axes :
                  forces[q + 1][j] = SumOver(part(q, j), pairs)
            /\ \A j \in Axes :
                  SumOver([q \in 1 .. numParticles |-> forces[q][j]],
                          1 .. numParticles) = 0
            /\ \A q \in 0 .. (numParticles - 1) :
                  ( /\ Len(impl.topology) = 2
                    /\ impl.topology[1].npart = 2
                    /\ impl.topology[2].npart = 2
                    /\ impl.topology[1].idxs[1] = q
                    /\ impl.topology[2].idxs[1] = q
                    /\ impl.parameters[1] = impl.parameters[2]
                    /\ \A j \in Axes :
                          At(pos, impl.topology[1].idxs[2])[j]
                            + At(pos, impl.topology[2].idxs[2])[j]
                          = 2 * At(pos, q)[j] )
                  => forces[q + 1] = Zero3

\* Particle 0 at the origin bonded to particles at (-3,0,0) and (3,0,0) by
\* two bonds of length 4 and k = 2: the partners are pushed apart and the
\* shared particle gets no force.
C8_Witness ==
    /\ call.op = "getState"
    /\ call.status = OK
    /\ impls[1].topology = << [idxs |-> <<0, 1>>, npart |-> 2],
                              [idxs |-> <<0, 2>>, npart |-> 2] >>
    /\ impls[1].parameters = << [length |-> 4, k |-> 2], [length |-> 4, k |-> 2] >>
    /\ positions[1] = << <<0, 0, 0>>, <<-3, 0, 0>>, <<3, 0, 0>> >>
    /\ call.result[2][1] = Zero3
    /\ call.result[2][2] = <<(0 - 4) * ForceScale, 0, 0>>
    /\ call.result[2][3] = <<4 * ForceScale, 0, 0>>

=============================================================================
